---- MODULE Spec2Model ----
(***************************************************************************)
(* Model of the LLM monitor extension: the background service worker       *)
(* (LLMMonitor in background.js), the scorer of the settings page          *)
(* (SettingsManager.testDetection) and the message-producing functions of  *)
(* the content script (LLMContentMonitor).                                  *)
(*                                                                         *)
(* chrome.storage.local is modelled as the pair (bodies, logIndex).  Its   *)
(* calls are served in the order they are issued, so one step of the model *)
(* is one storage call taking effect followed by the synchronous           *)
(* continuation that runs up to the next awaited call.  Handlers are       *)
(* started without being awaited (background.js:75, :93, :122), so several *)
(* of them are in flight at once and interleave at their awaits.  A        *)
(* handler that has returned leaves the set of calls; the one that         *)
(* returned last is kept in "last", with the answer it gave.               *)
(*                                                                         *)
(* Date.now() moves on by one between two handler invocations; a message   *)
(* of the content script carries the stamp taken when it was sent, the     *)
(* current clock value or the one before.                                  *)
(*                                                                         *)
(* A text is a sequence of tokens; a detector pattern matches a token when *)
(* the token is of the kind the regular expression recognises.             *)
(***************************************************************************)
EXTENDS Integers, Sequences, FiniteSets, TLC

\* ------------------------------------------------------------------ bounds
\* number of handler invocations (requests and messages) in one behaviour
MaxCalls == 2
\* largest totalMatches enumerated for the scorer
MaxMatches == 12
\* number of custom patterns in the settings
MaxPatterns == 2
\* number of response elements the page renders
MaxElements == 2

\* --------------------------------------------------------------- constants
\* "Keep only last 1000 entries": the index capacity, scaled down from 1000
maxEntries == 3
\* "Limit to 100": the cap of getLogs, scaled down from 100
queryLimit == 2
\* "limit: 10": the limit the popup sends with GET_LOGS, scaled down from 10
popupLimit == 1
\* "if (logEntry.riskScore >= 7)"
alertThreshold == 7
\* "retentionDays: 90": the retention the settings page sends with
\* CLEAR_OLD_LOGS, scaled down from 90 days to one unit of the clock
retentionDays == 1

\* ------------------------------------------------------------------- texts
\* tokens and the number of characters each stands for
TokenLen(tok) ==
  CASE tok = "hello"  -> 5     \* plain word
    [] tok = "ssn"    -> 11    \* 123-45-6789
    [] tok = "email"  -> 7     \* a@b.com
    [] tok = "apikey" -> 28    \* api_key=abcdefghijklmnopqrst
    [] tok = "conf"   -> 12    \* confidential
    [] tok = "code"   -> 12    \* function foo
    [] OTHER          -> 1

RECURSIVE TextLength(_)
TextLength(text) ==
  IF text = <<>> THEN 0
  ELSE IF Len(text) = 1 THEN TokenLen(text[1])
  ELSE TokenLen(text[1]) + 1 + TextLength(Tail(text))

\* the texts observed in a behaviour
Texts == { <<>>, <<"ssn">>, <<"apikey">> }

\* this.llmEndpoints: hostname -> provider, for the hosts of the model
KnownHosts == {"claude.ai", "chatgpt.com"}
\* the hosts requests go to in a behaviour: one of them, and one that is not
Hosts == {"claude.ai", "example.com"}
llmEndpoints(host) ==
  CASE host = "claude.ai"   -> "Anthropic Claude"
    [] host = "chatgpt.com" -> "OpenAI ChatGPT"
    [] OTHER                -> "none"

\* LLMContentMonitor.detectProvider, for the pages of the model
detectProvider(host) ==
  IF host = "claude.ai" THEN "Anthropic Claude" ELSE "Unknown LLM Service"

\* ---------------------------------------------------------------- analysis
\* Object.entries(this.sensitivePatterns), in declaration order
PatternOrder ==
  <<"ssn", "email", "phone", "creditCard", "ipAddress", "confidential",
    "apiKeys", "sourceCode", "sqlQueries">>

\* the tokens each pattern matches
sensitivePatterns(type) ==
  CASE type = "ssn"          -> {"ssn"}
    [] type = "email"        -> {"email"}
    [] type = "phone"        -> {"phone"}
    [] type = "creditCard"   -> {"card"}
    [] type = "ipAddress"    -> {"ip"}
    [] type = "confidential" -> {"conf"}
    [] type = "apiKeys"      -> {"apikey"}
    [] type = "sourceCode"   -> {"code"}
    [] type = "sqlQueries"   -> {"sql"}
    [] OTHER                 -> {}

\* text.match(pattern): the matched substrings, in order of occurrence
Match(text, type) ==
  SelectSeq(text, LAMBDA tok : tok \in sensitivePatterns(type))

RECURSIVE SumLen(_, _)
SumLen(text, i) ==
  IF i > Len(PatternOrder) THEN 0
  ELSE Len(Match(text, PatternOrder[i])) + SumLen(text, i + 1)

SeqToSet(s) == { s[i] : i \in 1..Len(s) }

\* the Analysis of a falsy text: { matches: [], types: [] }, every other
\* field undefined
EmptyAnalysis ==
  [full |-> FALSE, types |-> <<>>, hasPersonalData |-> FALSE,
   hasSecrets |-> FALSE, hasCode |-> FALSE, totalMatches |-> 0]

\* variant: only the credential category counts as a secret
analyzeSensitiveData_credentials(text) ==
  IF text = <<>> THEN EmptyAnalysis
  ELSE
    LET types == SelectSeq(PatternOrder, LAMBDA t : Len(Match(text, t)) > 0)
        tset  == SeqToSet(types)
    IN [full |-> TRUE,
        types |-> types,
        hasPersonalData |-> tset \cap {"ssn", "email", "phone", "creditCard"} # {},
        hasSecrets |-> "apiKeys" \in tset,
        hasCode |-> "sourceCode" \in tset,
        totalMatches |-> SumLen(text, 1)]

analyzeSensitiveData(text) ==
  IF text = <<>> THEN EmptyAnalysis
  ELSE
    LET types == SelectSeq(PatternOrder, LAMBDA t : Len(Match(text, t)) > 0)
        tset  == SeqToSet(types)
    IN [full |-> TRUE,
        types |-> types,
        hasPersonalData |-> tset \cap {"ssn", "email", "phone", "creditCard"} # {},
        hasSecrets |-> tset \cap {"apiKeys", "confidential"} # {},
        hasCode |-> "sourceCode" \in tset,
        totalMatches |-> SumLen(text, 1)]

Min(a, b) == IF a < b THEN a ELSE b

\* variant: the final Math.min is missing
calculateRiskScore_nocap(analysis) ==
  (IF analysis.full /\ analysis.hasPersonalData THEN 5 ELSE 0)
  + (IF analysis.full /\ analysis.hasSecrets THEN 8 ELSE 0)
  + (IF analysis.full /\ analysis.hasCode THEN 3 ELSE 0)
  + (IF analysis.full /\ analysis.totalMatches > 5 THEN 2 ELSE 0)
  + (IF analysis.full /\ analysis.totalMatches > 10 THEN 3 ELSE 0)

\* an undefined field is falsy, and undefined > n is false
calculateRiskScore(analysis) ==
  LET s1 == IF analysis.full /\ analysis.hasPersonalData THEN 5 ELSE 0
      s2 == s1 + (IF analysis.full /\ analysis.hasSecrets THEN 8 ELSE 0)
      s3 == s2 + (IF analysis.full /\ analysis.hasCode THEN 3 ELSE 0)
      s4 == s3 + (IF analysis.full /\ analysis.totalMatches > 5 THEN 2 ELSE 0)
      s5 == s4 + (IF analysis.full /\ analysis.totalMatches > 10 THEN 3 ELSE 0)
  IN Min(s5, 10)

\* variant: the two volume bonuses exclude each other
testDetectionScore_exclusive(hasPersonalData, hasSecrets, hasCode, totalMatches) ==
  Min((IF hasPersonalData THEN 5 ELSE 0) + (IF hasSecrets THEN 8 ELSE 0)
      + (IF hasCode THEN 3 ELSE 0)
      + (IF totalMatches > 10 THEN 3 ELSE IF totalMatches > 5 THEN 2 ELSE 0), 10)

\* the scorer at the end of SettingsManager.testDetection
testDetectionScore(hasPersonalData, hasSecrets, hasCode, totalMatches) ==
  LET r1 == IF hasPersonalData THEN 5 ELSE 0
      r2 == r1 + (IF hasSecrets THEN 8 ELSE 0)
      r3 == r2 + (IF hasCode THEN 3 ELSE 0)
      r4 == r3 + (IF totalMatches > 5 THEN 2 ELSE 0)
      r5 == r4 + (IF totalMatches > 10 THEN 3 ELSE 0)
  IN Min(r5, 10)

\* ------------------------------------------------------------------- state
VARIABLES
  now,                \* Date.now() at the next handler invocation
  bodies,             \* chrome.storage.local: llm_log_* key -> stored entry
  logIndex,           \* chrome.storage.local: the value under 'logIndex'
  indexVersion,       \* number of writes of 'logIndex' so far
  corporateEndpoint,  \* chrome.storage.managed: 'corporateEndpoint' ("" = unset)
  nCalls,             \* number of handler invocations so far
  calls,              \* the handler invocations in flight
  last,               \* the handler invocation that returned last
  alerts,             \* the sendAlert calls made: notification and escalation
  sent,               \* observations of the one exchange delivered, per source
  scoreIn,            \* the Analysis handed to the scorers
  bgScore,            \* result of calculateRiskScore(scoreIn), -1 = not run
  testScore,          \* result of the testDetection scorer, -1 = not run
  textIn,             \* the text handed to the classifier
  analysed,           \* scoreIn is the Analysis the classifier made of textIn
  customPatterns,     \* currentSettings.customPatterns, in key order
  elements            \* the response elements of the page the content script runs in

vars ==
  <<now, bodies, logIndex, indexVersion, corporateEndpoint, nCalls, calls,
    last, alerts, sent, scoreIn, bgScore, testScore, textIn, analysed,
    customPatterns, elements>>

storeVars ==
  <<now, bodies, logIndex, indexVersion, corporateEndpoint, nCalls, calls,
    last, alerts, sent>>
scoreVars ==
  <<scoreIn, bgScore, testScore, textIn, analysed, customPatterns, elements>>

\* ----------------------------------------------------------------- records
NoEntry ==
  [timestamp |-> 0, requestId |-> 0, url |-> "", provider |-> "",
   type |-> "none", method |-> "", text |-> <<>>,
   analysis |-> EmptyAnalysis, riskScore |-> 0]

NoResponse == [kind |-> "none", logs |-> <<>>, totalEntries |-> 0]

NoFilters == [provider |-> "", minRiskScore |-> 0, timeRange |-> 0, limit |-> 0]

\* a response element that is not in the document
NoElement == [state |-> "absent", text |-> <<>>, logged |-> FALSE, sent |-> 0]

\* a page that has rendered no response yet
NoElements == [e \in 1..MaxElements |-> NoElement]

\* a handler invocation that has done nothing
NewCall(id, op) ==
  [id |-> id, op |-> op, pc |-> "done", entry |-> NoEntry, read |-> <<>>,
   idx |-> <<>>, toRemove |-> <<>>, ver |-> 0, appended |-> FALSE,
   notified |-> FALSE, filters |-> NoFilters, resp |-> NoResponse]

NoCall == NewCall(0, "none")

\* ------------------------------------------------- content script messages
NoMessage == [type |-> "none", data |-> NoEntry, filters |-> NoFilters]

\* variant: the message goes out under the type of the user-input path
handleInterceptedResponse_type(ts, host, response) ==
  [type |-> "LOG_REQUEST",
   data |-> [NoEntry EXCEPT !.timestamp = ts, !.url = host,
                            !.provider = detectProvider(host),
                            !.text = response, !.method = "network_intercept"],
   filters |-> NoFilters]

\* LLMContentMonitor.handleInterceptedResponse: the message it sends
handleInterceptedResponse(ts, host, response) ==
  [type |-> "LOG_RESPONSE",
   data |-> [NoEntry EXCEPT !.timestamp = ts, !.url = host,
                            !.provider = detectProvider(host),
                            !.text = response, !.method = "network_intercept"],
   filters |-> NoFilters]

\* LLMContentMonitor.extractAndLogResponse: the message it sends, if any
extractAndLogResponse(ts, host, textContent) ==
  IF textContent # <<>> /\ TextLength(textContent) > 10
  THEN [type |-> "LOG_RESPONSE",
        data |-> [NoEntry EXCEPT !.timestamp = ts, !.url = host,
                                 !.provider = detectProvider(host),
                                 !.text = textContent, !.method = "dom_extraction"],
        filters |-> NoFilters]
  ELSE NoMessage

\* LLMContentMonitor.monitorUserInput: the message of its keydown listener
monitorUserInput(ts, host, content) ==
  IF content # <<>> /\ TextLength(content) > 0
  THEN [type |-> "LOG_REQUEST",
        data |-> [NoEntry EXCEPT !.timestamp = ts, !.url = host,
                                 !.provider = detectProvider(host),
                                 !.text = content, !.method = "input_monitoring"],
        filters |-> NoFilters]
  ELSE NoMessage

\* ------------------------------------------------------------- log store
\* const key = `llm_log_${entry.timestamp}_${entry.requestId}`
\* (requestId 0 stands for the undefined requestId of a response)
storageKey(entry) == <<entry.timestamp, entry.requestId>>

\* the item storeLogEntry pushes onto the index
indexItem(entry) ==
  [key |-> storageKey(entry), timestamp |-> entry.timestamp,
   provider |-> entry.provider, riskScore |-> entry.riskScore,
   url |-> entry.url]

\* logIndex.splice(0, logIndex.length - 1000): the removed items ...
spliceRemoved(idx) ==
  IF Len(idx) > maxEntries THEN SubSeq(idx, 1, Len(idx) - maxEntries) ELSE <<>>

\* variant: the excess is never spliced off
spliceKept_nocap(idx) == idx

\* variant: the excess is cut from the wrong end
spliceKept_front(idx) ==
  IF Len(idx) > maxEntries THEN SubSeq(idx, 1, maxEntries) ELSE idx

\* ... and what is left in logIndex
spliceKept(idx) ==
  IF Len(idx) > maxEntries
  THEN SubSeq(idx, Len(idx) - maxEntries + 1, Len(idx))
  ELSE idx

\* variant: a request without a body is scored as the highest risk
requestLogEntry_nobody(ts, host, requestBody, requestId) ==
  LET analysis == analyzeSensitiveData(requestBody)
  IN [timestamp |-> ts, requestId |-> requestId, url |-> host,
      provider |-> llmEndpoints(host), type |-> "web", method |-> "POST",
      text |-> requestBody, analysis |-> analysis,
      riskScore |-> IF requestBody = <<>> THEN 10 ELSE calculateRiskScore(analysis)]

\* analyzeAndLogRequest: the logEntry built from requestData
requestLogEntry(ts, host, requestBody, requestId) ==
  LET analysis == analyzeSensitiveData(requestBody)
  IN [timestamp |-> ts, requestId |-> requestId, url |-> host,
      provider |-> llmEndpoints(host), type |-> "web", method |-> "POST",
      text |-> requestBody, analysis |-> analysis,
      riskScore |-> calculateRiskScore(analysis)]

\* logResponse: the logEntry built from responseData
responseLogEntry(data) ==
  LET analysis == analyzeSensitiveData(data.text)
  IN [data EXCEPT !.analysis = analysis,
                  !.riskScore = calculateRiskScore(analysis),
                  !.type = "response"]

\* a handler is invoked and suspends at its first await; Date.now() has
\* moved on when the next one is invoked
Suspend(call) ==
  /\ now' = now + 1
  /\ nCalls' = nCalls + 1
  /\ calls' = calls \cup {call}
  /\ UNCHANGED last

\* a handler in flight moves to its next await
Continue(c, call) ==
  /\ calls' = (calls \ {c}) \cup {call}
  /\ UNCHANGED <<nCalls, last>>

\* a handler in flight returns: what it did, what it wrote and what it
\* answered stay on record
Return(c, call) ==
  /\ calls' = calls \ {c}
  /\ last' = [call EXCEPT !.read = <<>>, !.ver = 0]
  /\ UNCHANGED nCalls

\* variant: an entry whose exchange already has a stored record of the same
\* direction is discarded
StartStore_dedup(op, entry) ==
  IF \E k \in DOMAIN bodies :
       /\ bodies[k].url = entry.url
       /\ bodies[k].provider = entry.provider
       /\ (bodies[k].type = "response") = (entry.type = "response")
  THEN /\ now' = now + 1
       /\ nCalls' = nCalls + 1
       /\ last' = NewCall(nCalls + 1, op)
       /\ UNCHANGED <<bodies, logIndex, indexVersion, corporateEndpoint,
                      calls, alerts>>
  ELSE /\ bodies' = (storageKey(entry) :> entry) @@ bodies
       /\ Suspend([NewCall(nCalls + 1, op) EXCEPT !.pc = "getIndex", !.entry = entry])
       /\ UNCHANGED <<logIndex, indexVersion, corporateEndpoint, alerts>>

\* variant: a DOM extract takes over the text of a network-layer record of
\* the same page that is already stored
StartStore_precedence(op, entry) ==
  LET net == { k \in DOMAIN bodies :
                 /\ bodies[k].method = "network_intercept"
                 /\ bodies[k].url = entry.url
                 /\ bodies[k].text # <<>> }
      text == IF entry.method = "dom_extraction" /\ net # {}
              THEN bodies[CHOOSE k \in net : TRUE].text
              ELSE entry.text
  IN /\ bodies' = (storageKey(entry) :> [entry EXCEPT !.text = text]) @@ bodies
     /\ Suspend([NewCall(nCalls + 1, op) EXCEPT !.pc = "getIndex", !.entry = entry])
     /\ UNCHANGED <<logIndex, indexVersion, corporateEndpoint, alerts>>

\* storeLogEntry up to its first await: the body is written under its key
StartStore(op, entry) ==
  /\ bodies' = (storageKey(entry) :> entry) @@ bodies
  /\ Suspend([NewCall(nCalls + 1, op) EXCEPT !.pc = "getIndex", !.entry = entry])
  /\ UNCHANGED <<logIndex, indexVersion, corporateEndpoint, alerts>>

\* storeLogEntry: the index is read, the item pushed and the excess spliced off
StoreGetIndex(c) ==
  /\ c.pc = "getIndex"
  /\ LET pushed == Append(logIndex, indexItem(c.entry))
     IN Continue(c, [c EXCEPT !.pc = "setIndex",
                              !.read = logIndex,
                              !.ver = indexVersion,
                              !.toRemove = spliceRemoved(pushed),
                              !.idx = spliceKept(pushed)])
  /\ UNCHANGED <<now, bodies, logIndex, indexVersion, corporateEndpoint, alerts>>

\* variant: the alert fires from the personal-data score on
shouldAlert_low(entry) == entry.riskScore >= 5

\* if (logEntry.riskScore >= 7)
shouldAlert(entry) == entry.riskScore >= alertThreshold

\* sendAlert: the notification is created and sendToCorporateMonitoring
\* starts, suspending at getCorporateEndpoint
sendAlert(logEntry) ==
  alerts \cup {[key |-> storageKey(logEntry), riskScore |-> logEntry.riskScore,
                esc |-> "lookup"]}

\* analyzeAndLogRequest after storeLogEntry has resolved
AfterStoreRequest(c, stored) ==
  IF shouldAlert(c.entry)
  THEN /\ alerts' = sendAlert(c.entry)
       /\ Return(c, [stored EXCEPT !.pc = "done", !.notified = TRUE])
  ELSE /\ alerts' = alerts
       /\ Return(c, [stored EXCEPT !.pc = "done"])

\* handleMessage, case 'LOG_RESPONSE', after logResponse has resolved
AfterStoreResponse(c, stored) ==
  /\ alerts' = alerts
  /\ Return(c, [stored EXCEPT !.pc = "done",
                              !.resp = [NoResponse EXCEPT !.kind = "success"]])

\* storeLogEntry: the spliced-off bodies are removed and the index written;
\* storeLogEntry resolves and its caller runs on to its return
StoreSetIndex(c) ==
  /\ c.pc = "setIndex"
  /\ LET gone == { c.toRemove[i].key : i \in 1..Len(c.toRemove) }
     IN bodies' = [k \in DOMAIN bodies \ gone |-> bodies[k]]
  /\ logIndex' = c.idx
  /\ indexVersion' = indexVersion + 1
  /\ LET stored == [c EXCEPT !.appended = TRUE]
     IN IF c.op = "interceptRequest"
        THEN AfterStoreRequest(c, stored)
        ELSE AfterStoreResponse(c, stored)
  /\ UNCHANGED <<now, corporateEndpoint>>

\* variant: the escalation goes on whether or not an endpoint is configured
GetCorporateEndpoint_unconditional(a) ==
  /\ a.esc = "lookup"
  /\ alerts' = (alerts \ {a}) \cup {[a EXCEPT !.esc = "identity"]}
  /\ UNCHANGED <<now, bodies, logIndex, indexVersion, corporateEndpoint,
                 nCalls, calls, last>>

\* sendToCorporateMonitoring: getCorporateEndpoint resolves
GetCorporateEndpoint(a) ==
  /\ a.esc = "lookup"
  /\ alerts' = (alerts \ {a}) \cup
       {[a EXCEPT !.esc = IF corporateEndpoint # "" THEN "identity" ELSE "skipped"]}
  /\ UNCHANGED <<now, bodies, logIndex, indexVersion, corporateEndpoint,
                 nCalls, calls, last>>

\* sendToCorporateMonitoring: getUserIdentity resolves and fetch is called
GetUserIdentity(a) ==
  /\ a.esc = "identity"
  /\ alerts' = (alerts \ {a}) \cup {[a EXCEPT !.esc = "attempted"]}
  /\ UNCHANGED <<now, bodies, logIndex, indexVersion, corporateEndpoint,
                 nCalls, calls, last>>

\* variant: the catch starts sendToCorporateMonitoring over
EscalationFails_retry(a) ==
  /\ a.esc \in {"lookup", "identity"}
  /\ alerts' = (alerts \ {a}) \cup
       {[a EXCEPT !.esc = IF a.esc = "identity" THEN "lookup" ELSE "failed"]}
  /\ UNCHANGED <<now, bodies, logIndex, indexVersion, corporateEndpoint,
                 nCalls, calls, last>>

\* sendToCorporateMonitoring: an awaited lookup rejects; the catch logs it
EscalationFails(a) ==
  /\ a.esc \in {"lookup", "identity"}
  /\ alerts' = (alerts \ {a}) \cup {[a EXCEPT !.esc = "failed"]}
  /\ UNCHANGED <<now, bodies, logIndex, indexVersion, corporateEndpoint,
                 nCalls, calls, last>>

\* the fetch that was called and not awaited settles: the sink answers, or it
\* is unreachable or rejects and the promise nobody holds is rejected
FetchSettles(a) ==
  /\ a.esc = "attempted"
  /\ \E outcome \in {"delivered", "rejected"} :
       alerts' = (alerts \ {a}) \cup {[a EXCEPT !.esc = outcome]}
  /\ UNCHANGED <<now, bodies, logIndex, indexVersion, corporateEndpoint,
                 nCalls, calls, last>>

\* ------------------------------------------------------------------ getLogs
\* the three filters of getLogs, applied to the index that was read
filterIndex(idx, filters, t) ==
  LET f1 == IF filters.provider # ""
            THEN SelectSeq(idx, LAMBDA log : log.provider = filters.provider)
            ELSE idx
      f2 == IF filters.minRiskScore # 0
            THEN SelectSeq(f1, LAMBDA log : log.riskScore >= filters.minRiskScore)
            ELSE f1
      f3 == IF filters.timeRange # 0
            THEN SelectSeq(f2, LAMBDA log : log.timestamp >= t - filters.timeRange)
            ELSE f2
  IN f3

\* filteredIndex.slice(0, 100).map(log => log.key)
sliceKeys(idx) ==
  [i \in 1..Min(Len(idx), queryLimit) |-> idx[i].key]

\* Object.values(await chrome.storage.local.get(keys)): one value per key
\* that is present, a key asked for twice giving one value
RECURSIVE storageGet(_, _, _)
storageGet(keys, i, store) ==
  IF i > Len(keys) THEN <<>>
  ELSE IF keys[i] \in DOMAIN store
          /\ \A j \in 1..(i - 1) : keys[j] # keys[i]
       THEN <<store[keys[i]]>> \o storageGet(keys, i + 1, store)
       ELSE storageGet(keys, i + 1, store)

\* getLogs up to its first await: the index is read
StartGetLogs(op, filters) ==
  /\ Suspend([NewCall(nCalls + 1, op) EXCEPT !.pc = "getBodies",
                                             !.read = logIndex,
                                             !.ver = indexVersion,
                                             !.filters = filters])
  /\ UNCHANGED <<bodies, logIndex, indexVersion, corporateEndpoint, alerts>>

\* variant: the bodies a query returns are taken out of the store
GetBodies_consume(c) ==
  /\ c.pc = "getBodies"
  /\ LET keys == sliceKeys(filterIndex(c.read, c.filters, now))
         logs == storageGet(keys, 1, bodies)
     IN /\ Return(c, [c EXCEPT
             !.pc = "done",
             !.idx = keys,
             !.resp = IF c.op = "EXPORT_LOGS"
                      THEN [kind |-> "data", logs |-> logs, totalEntries |-> Len(logs)]
                      ELSE [kind |-> "logs", logs |-> logs, totalEntries |-> 0]])
        /\ bodies' = [k \in DOMAIN bodies \ SeqToSet(keys) |-> bodies[k]]
  /\ UNCHANGED <<now, logIndex, indexVersion, corporateEndpoint, alerts>>

\* getLogs: the index is filtered and cut, the bodies are read, and
\* handleMessage answers (exportLogs wraps the logs first)
GetBodies(c) ==
  /\ c.pc = "getBodies"
  /\ LET keys == sliceKeys(filterIndex(c.read, c.filters, now))
         logs == storageGet(keys, 1, bodies)
     IN Return(c, [c EXCEPT
          !.pc = "done",
          !.idx = keys,
          !.resp = IF c.op = "EXPORT_LOGS"
                   THEN [kind |-> "data", logs |-> logs, totalEntries |-> Len(logs)]
                   ELSE [kind |-> "logs", logs |-> logs, totalEntries |-> 0]])
  /\ UNCHANGED <<now, bodies, logIndex, indexVersion, corporateEndpoint, alerts>>

\* ----------------------------------------------------------- entry points
\* variant: the default case sends no answer
handleMessage_silent(message) ==
  CASE message.type = "LOG_RESPONSE" ->
            StartStore("LOG_RESPONSE", responseLogEntry(message.data))
       [] message.type = "GET_LOGS" ->
            StartGetLogs("GET_LOGS", message.filters)
       [] message.type = "EXPORT_LOGS" ->
            StartGetLogs("EXPORT_LOGS", NoFilters)
       [] OTHER ->
            /\ now' = now + 1
            /\ nCalls' = nCalls + 1
            /\ last' = NewCall(nCalls + 1, message.type)
            /\ UNCHANGED <<bodies, logIndex, indexVersion,
                           corporateEndpoint, calls, alerts>>

\* LLMMonitor.handleMessage, up to the first await of the case taken
handleMessage(message) ==
  CASE message.type = "LOG_RESPONSE" ->
            StartStore("LOG_RESPONSE", responseLogEntry(message.data))
       [] message.type = "GET_LOGS" ->
            StartGetLogs("GET_LOGS", message.filters)
       [] message.type = "EXPORT_LOGS" ->
            StartGetLogs("EXPORT_LOGS", NoFilters)
       [] OTHER ->
            /\ now' = now + 1
            /\ nCalls' = nCalls + 1
            /\ last' = [NewCall(nCalls + 1, message.type) EXCEPT
                          !.resp = [NoResponse EXCEPT !.kind = "error"]]
            /\ UNCHANGED <<bodies, logIndex, indexVersion,
                           corporateEndpoint, calls, alerts>>

\* variant: the method is not looked at
interceptRequest_anyMethod(host, method, requestBody) ==
  IF host \notin KnownHosts
  THEN /\ now' = now + 1
       /\ nCalls' = nCalls + 1
       /\ last' = [NewCall(nCalls + 1, "interceptRequest") EXCEPT !.pc = "ignored"]
       /\ UNCHANGED <<bodies, logIndex, indexVersion,
                      corporateEndpoint, calls, alerts>>
  ELSE StartStore("interceptRequest",
                  [requestLogEntry(now, host, requestBody, nCalls + 1)
                     EXCEPT !.method = method])

\* LLMMonitor.interceptRequest, with analyzeAndLogRequest up to its first await
interceptRequest(host, method, requestBody) ==
  IF host \notin KnownHosts \/ method # "POST"
  THEN /\ now' = now + 1
       /\ nCalls' = nCalls + 1
       /\ last' = [NewCall(nCalls + 1, "interceptRequest") EXCEPT !.pc = "ignored"]
       /\ UNCHANGED <<bodies, logIndex, indexVersion,
                      corporateEndpoint, calls, alerts>>
  ELSE StartStore("interceptRequest",
                  requestLogEntry(now, host, requestBody, nCalls + 1))

\* ------------------------------------------------------------------ events
\* the pages the content script runs in
Pages == {"claude.ai"}

\* the filters the popup and the dashboard send with GET_LOGS
FilterSet ==
  {NoFilters} \cup
  { [provider |-> p, minRiskScore |-> r, timeRange |-> t, limit |-> popupLimit] :
      p \in {"", "Anthropic Claude"}, r \in {0, 4}, t \in {0, 1} }

\* chrome.webRequest.onBeforeRequest fires
WebRequest ==
  /\ nCalls < MaxCalls
  /\ \E host \in Hosts, method \in {"POST", "GET"}, requestBody \in Texts :
       interceptRequest(host, method, requestBody)
  /\ UNCHANGED <<scoreVars, sent>>

\* the page script reports a response; the message reaches the background
\* some time after the content script stamped it
PageResponse ==
  /\ nCalls < MaxCalls
  /\ \E ts \in (now - 1)..now, host \in Pages, response \in Texts :
       handleMessage(handleInterceptedResponse(ts, host, response))
  /\ UNCHANGED <<scoreVars, sent>>

\* the content script extracts a response element of the page
DomResponse ==
  /\ nCalls < MaxCalls
  /\ \E ts \in (now - 1)..now, host \in Pages, textContent \in Texts :
       LET message == extractAndLogResponse(ts, host, textContent)
       IN message # NoMessage /\ handleMessage(message)
  /\ UNCHANGED <<scoreVars, sent>>

\* the keydown listener of monitorUserInput reports what the user typed
UserInput ==
  /\ nCalls < MaxCalls
  /\ \E ts \in (now - 1)..now, host \in Pages, content \in Texts :
       LET message == monitorUserInput(ts, host, content)
       IN message # NoMessage /\ handleMessage(message)
  /\ UNCHANGED <<scoreVars, sent>>

\* the popup asks for logs
GetLogsRequest ==
  /\ nCalls < MaxCalls
  /\ \E filters \in FilterSet :
       handleMessage([NoMessage EXCEPT !.type = "GET_LOGS", !.filters = filters])
  /\ UNCHANGED <<scoreVars, sent>>

\* the popup or the settings page asks for an export
ExportLogsRequest ==
  /\ nCalls < MaxCalls
  /\ handleMessage([NoMessage EXCEPT !.type = "EXPORT_LOGS"])
  /\ UNCHANGED <<scoreVars, sent>>

\* SettingsManager.clearOldLogs sends CLEAR_OLD_LOGS
ClearOldLogsRequest ==
  /\ nCalls < MaxCalls
  /\ handleMessage([type |-> "CLEAR_OLD_LOGS", retentionDays |-> retentionDays])
  /\ UNCHANGED <<scoreVars, sent>>

\* a suspended append resumes
ResumeStore ==
  /\ \E c \in calls :
       \/ StoreGetIndex(c)
       \/ StoreSetIndex(c)
  /\ UNCHANGED <<scoreVars, sent>>

\* a suspended query resumes
ResumeQuery ==
  /\ \E c \in calls : GetBodies(c)
  /\ UNCHANGED <<scoreVars, sent>>

\* a step of a running sendToCorporateMonitoring
Escalate ==
  /\ \E a \in alerts :
       \/ GetCorporateEndpoint(a)
       \/ GetUserIdentity(a)
       \/ EscalationFails(a)
       \/ FetchSettles(a)
  /\ UNCHANGED <<scoreVars, sent>>

\* no observation of the exchange delivered yet
NoneSent == [request |-> 0, page |-> 0, dom |-> 0]

\* a record an earlier run of the service worker left in the store
oldEntry ==
  responseLogEntry(handleInterceptedResponse(2, "claude.ai", <<"ssn">>).data)

\* records of requests an earlier run left: one to another provider, stamped
\* before oldEntry and indexed after it, and one with an empty body
oldRequest == requestLogEntry(1, "chatgpt.com", <<"apikey">>, 8)
oldEmpty == requestLogEntry(2, "claude.ai", <<>>, 9)

\* a store filled to its capacity
fullStore == <<oldEntry, oldRequest, oldEmpty>>

\* the service worker starts on a store that is empty, holds oldEntry, or
\* is full
Init ==
  /\ now = 2
  /\ \E n \in {0, 1, Len(fullStore)} :
       /\ logIndex = [i \in 1..n |-> indexItem(fullStore[i])]
       /\ bodies = [k \in {storageKey(fullStore[i]) : i \in 1..n} |->
                     LET i == CHOOSE j \in 1..n : storageKey(fullStore[j]) = k
                     IN fullStore[i]]
  /\ indexVersion = 0
  /\ corporateEndpoint \in {"", "https://siem.example"}
  /\ nCalls = 0
  /\ calls = {}
  /\ last = NoCall
  /\ alerts = {}
  /\ sent = NoneSent
  /\ scoreIn = EmptyAnalysis
  /\ bgScore = -1
  /\ testScore = -1
  /\ textIn = <<>>
  /\ analysed = FALSE
  /\ customPatterns = <<>>
  /\ elements = NoElements

\* the capture pipeline: observations arrive, are scored, stored and alerted
Next ==
  \/ WebRequest
  \/ PageResponse
  \/ DomResponse
  \/ UserInput
  \/ ResumeStore
  \/ Escalate

Spec == Init /\ [][Next]_vars

\* the capture pipeline with the popup and the settings page reading from it
QueryNext ==
  \/ WebRequest
  \/ PageResponse
  \/ DomResponse
  \/ GetLogsRequest
  \/ ExportLogsRequest
  \/ ClearOldLogsRequest
  \/ ResumeStore
  \/ ResumeQuery
  \/ Escalate

QuerySpec == Init /\ [][QueryNext]_vars

\* ------------------------------------------------------- storage failures
\* chrome.storage.local is unavailable for one call: the promise of the call
\* rejects.  storeLogEntry, logResponse, analyzeAndLogRequest and
\* handleMessage have no try/catch, so the rejection passes through each of
\* them; nobody holds the promise of handleMessage (background.js:93) or of
\* analyzeAndLogRequest (background.js:122), sendResponse is never called and
\* sendAlert is never reached.
Rejected(call) ==
  [call EXCEPT !.pc = "rejected", !.read = <<>>, !.ver = 0]

\* the entries a handler invoked now would hand to storeLogEntry
EntriesNow ==
  { requestLogEntry(now, host, requestBody, nCalls + 1) :
      host \in Hosts \cap KnownHosts, requestBody \in Texts }
  \cup
  { responseLogEntry(handleInterceptedResponse(ts, host, response).data) :
      ts \in (now - 1)..now, host \in Pages, response \in Texts }

\* storeLogEntry: the set of the body rejects, nothing is written
SetBodyFails ==
  /\ nCalls < MaxCalls
  /\ \E entry \in EntriesNow :
       LET op == IF entry.type = "response" THEN "LOG_RESPONSE"
                 ELSE "interceptRequest"
       IN last' = Rejected([NewCall(nCalls + 1, op) EXCEPT !.entry = entry])
  /\ now' = now + 1
  /\ nCalls' = nCalls + 1
  /\ UNCHANGED <<bodies, logIndex, indexVersion, corporateEndpoint, calls, alerts>>
  /\ UNCHANGED <<scoreVars, sent>>

\* storeLogEntry: the get of the index rejects, the body stays behind
GetIndexFails(c) ==
  /\ c.pc = "getIndex"
  /\ calls' = calls \ {c}
  /\ last' = Rejected(c)
  /\ UNCHANGED <<now, bodies, logIndex, indexVersion, corporateEndpoint,
                 nCalls, alerts>>

\* storeLogEntry: the set of the index rejects; the removals issued before
\* it and not awaited take effect or reject as well
SetIndexFails(c) ==
  /\ c.pc = "setIndex"
  /\ \E removed \in BOOLEAN :
       LET gone == IF removed
                   THEN { c.toRemove[i].key : i \in 1..Len(c.toRemove) }
                   ELSE {}
       IN bodies' = [k \in DOMAIN bodies \ gone |-> bodies[k]]
  /\ calls' = calls \ {c}
  /\ last' = Rejected(c)
  /\ UNCHANGED <<now, logIndex, indexVersion, corporateEndpoint, nCalls, alerts>>

\* an awaited storage call of a suspended append rejects
StorageFails ==
  /\ \E c \in calls :
       \/ GetIndexFails(c)
       \/ SetIndexFails(c)
  /\ UNCHANGED <<scoreVars, sent>>

\* the capture pipeline on a storage that can fail
FailNext ==
  \/ WebRequest
  \/ PageResponse
  \/ ResumeStore
  \/ SetBodyFails
  \/ StorageFails

FailSpec == Init /\ [][FailNext]_vars

\* ------------------------------------------------------- one exchange
\* One logical exchange seen by the three capture sources: the webRequest
\* listener (its request), the page script (its response) and the DOM
\* observer (its response again), one after the other.
\* bound: observations of the exchange delivered, all sources together
MaxObservations == 3

Delivered == sent.request + sent.page + sent.dom

\* the text of the exchange
ExchangeText == <<"ssn">>

ExchangeRequest ==
  /\ Delivered < MaxObservations
  /\ interceptRequest("claude.ai", "POST", ExchangeText)
  /\ sent' = [sent EXCEPT !.request = @ + 1]
  /\ UNCHANGED scoreVars

ExchangePage ==
  /\ Delivered < MaxObservations
  /\ handleMessage(handleInterceptedResponse(now, "claude.ai", ExchangeText))
  /\ sent' = [sent EXCEPT !.page = @ + 1]
  /\ UNCHANGED scoreVars

ExchangeDom ==
  /\ Delivered < MaxObservations
  /\ LET message == extractAndLogResponse(now, "claude.ai", ExchangeText)
     IN message # NoMessage /\ handleMessage(message)
  /\ sent' = [sent EXCEPT !.dom = @ + 1]
  /\ UNCHANGED scoreVars

ExchangeInit ==
  /\ now = 2
  /\ bodies = <<>>
  /\ logIndex = <<>>
  /\ indexVersion = 0
  /\ corporateEndpoint = ""
  /\ nCalls = 0
  /\ calls = {}
  /\ last = NoCall
  /\ alerts = {}
  /\ sent = NoneSent
  /\ scoreIn = EmptyAnalysis
  /\ bgScore = -1
  /\ testScore = -1
  /\ textIn = <<>>
  /\ analysed = FALSE
  /\ customPatterns = <<>>
  /\ elements = NoElements

ExchangeNext ==
  \/ ExchangeRequest
  \/ ExchangePage
  \/ ExchangeDom
  \/ ResumeStore

ExchangeSpec == ExchangeInit /\ [][ExchangeNext]_vars

\* ------------------------------------------------------------ the scorers
\* every Analysis: the one of an empty text, and every combination of the
\* three flags with a match count
AnalysisValues ==
  {EmptyAnalysis} \cup
  { [EmptyAnalysis EXCEPT !.full = TRUE, !.hasPersonalData = p,
                          !.hasSecrets = s, !.hasCode = k, !.totalMatches = n] :
      p \in BOOLEAN, s \in BOOLEAN, k \in BOOLEAN, n \in 0..MaxMatches }

\* LLMMonitor.calculateRiskScore is applied
RunCalculateRiskScore ==
  /\ bgScore = -1
  /\ bgScore' = calculateRiskScore(scoreIn)
  /\ UNCHANGED <<scoreIn, testScore, textIn, analysed, customPatterns, elements>>
  /\ UNCHANGED storeVars

\* the scorer of testDetection is applied; testDetection returns before it
\* for an empty input, so the flags it scores are always defined
RunTestDetectionScore ==
  /\ testScore = -1
  /\ scoreIn.full
  /\ testScore' = testDetectionScore(scoreIn.hasPersonalData, scoreIn.hasSecrets,
                                     scoreIn.hasCode, scoreIn.totalMatches)
  /\ UNCHANGED <<scoreIn, bgScore, textIn, analysed, customPatterns, elements>>
  /\ UNCHANGED storeVars

ScoreInit ==
  /\ now = 2
  /\ bodies = <<>>
  /\ logIndex = <<>>
  /\ indexVersion = 0
  /\ corporateEndpoint = ""
  /\ nCalls = 0
  /\ calls = {}
  /\ last = NoCall
  /\ alerts = {}
  /\ sent = NoneSent
  /\ scoreIn \in AnalysisValues
  /\ bgScore = -1
  /\ testScore = -1
  /\ textIn = <<>>
  /\ analysed = FALSE
  /\ customPatterns = <<>>
  /\ elements = NoElements

ScoreNext ==
  \/ RunCalculateRiskScore
  \/ RunTestDetectionScore

ScoreSpec == ScoreInit /\ [][ScoreNext]_vars

\* ---------------------------------------------------------- the classifier
\* bound: number of tokens of a text handed to the classifier
MaxLen == 2

\* one token that no pattern matches, and one token per pattern
Tokens ==
  {"hello", "ssn", "email", "phone", "card", "ip", "conf", "apikey", "code", "sql"}

AnalyzeTexts == UNION { [1..n -> Tokens] : n \in 0..MaxLen }

\* analyzeAndLogRequest and logResponse: analyzeSensitiveData is applied
RunAnalyze ==
  /\ ~analysed
  /\ scoreIn' = analyzeSensitiveData(textIn)
  /\ analysed' = TRUE
  /\ UNCHANGED <<bgScore, testScore, textIn, customPatterns, elements>>
  /\ UNCHANGED storeVars

\* ... and calculateRiskScore is applied to the Analysis it returned
ScoreAnalysed ==
  /\ analysed
  /\ bgScore = -1
  /\ bgScore' = calculateRiskScore(scoreIn)
  /\ UNCHANGED <<scoreIn, testScore, textIn, analysed, customPatterns, elements>>
  /\ UNCHANGED storeVars

AnalyzeInit ==
  /\ now = 2
  /\ bodies = <<>>
  /\ logIndex = <<>>
  /\ indexVersion = 0
  /\ corporateEndpoint = ""
  /\ nCalls = 0
  /\ calls = {}
  /\ last = NoCall
  /\ alerts = {}
  /\ sent = NoneSent
  /\ scoreIn = EmptyAnalysis
  /\ bgScore = -1
  /\ testScore = -1
  /\ textIn \in AnalyzeTexts
  /\ analysed = FALSE
  /\ customPatterns = <<>>
  /\ elements = NoElements

AnalyzeNext ==
  \/ RunAnalyze
  \/ ScoreAnalysed

AnalyzeSpec == AnalyzeInit /\ [][AnalyzeNext]_vars

\* ------------------------------------------------- the settings page's test
\* Object.entries(currentSettings.customPatterns): name and pattern, in key
\* order.  A well-formed pattern is written as the token it matches; "(" is a
\* pattern new RegExp() throws a SyntaxError for.
malformed == "("

CustomNames == <<"a", "b", "c", "d">>

CustomPatternValues == {malformed, "hello", "conf"}

CustomPatternSets ==
  UNION { { [i \in 1..n |-> [name |-> CustomNames[i], pattern |-> f[i]]] :
              f \in [1..n -> CustomPatternValues] } : n \in 0..MaxPatterns }

\* `custom_${name}`
customType(name) ==
  CASE name = "a" -> "custom_a"
    [] name = "b" -> "custom_b"
    [] name = "c" -> "custom_c"
    [] OTHER      -> "custom_d"

\* variant: the try encloses the whole loop, one throw ends it
customLoop_abort(text, patterns, types, totalMatches) ==
  LET wellFormed(i) == \A j \in 1..i : patterns[j].pattern # malformed
      found(i) == SelectSeq(text, LAMBDA tok : tok = patterns[i].pattern)
      hits == SelectSeq([i \in 1..Len(patterns) |-> i],
                        LAMBDA i : wellFormed(i) /\ Len(found(i)) > 0)
      RECURSIVE count(_)
      count(k) == IF k = 0 THEN 0 ELSE Len(found(hits[k])) + count(k - 1)
  IN [types |-> types \o [k \in 1..Len(hits) |-> customType(patterns[hits[k]].name)],
      totalMatches |-> totalMatches + count(Len(hits))]

\* testDetection: the loop over the custom patterns; the callback of a
\* pattern that new RegExp() rejects ends in its catch, the others push their
\* type and add their matches
customLoop(text, patterns, types, totalMatches) ==
  LET wellFormed(i) == patterns[i].pattern # malformed
      found(i) == SelectSeq(text, LAMBDA tok : tok = patterns[i].pattern)
      hits == SelectSeq([i \in 1..Len(patterns) |-> i],
                        LAMBDA i : wellFormed(i) /\ Len(found(i)) > 0)
      RECURSIVE count(_)
      count(k) == IF k = 0 THEN 0 ELSE Len(found(hits[k])) + count(k - 1)
  IN [types |-> types \o [k \in 1..Len(hits) |-> customType(patterns[hits[k]].name)],
      totalMatches |-> totalMatches + count(Len(hits))]

\* testDetection: types, flags and totalMatches of a test input
testDetection(testInput, patterns) ==
  LET builtin == SelectSeq(PatternOrder, LAMBDA t : Len(Match(testInput, t)) > 0)
      all == customLoop(testInput, patterns, builtin, SumLen(testInput, 1))
      tset == SeqToSet(all.types)
  IN [full |-> TRUE,
      types |-> all.types,
      hasPersonalData |-> tset \cap {"ssn", "email", "phone", "creditCard"} # {},
      hasSecrets |-> tset \cap {"apiKeys", "confidential"} # {},
      hasCode |-> "sourceCode" \in tset,
      totalMatches |-> all.totalMatches]

\* the Test button of the settings page; an empty input is turned away
RunTestDetection ==
  /\ testScore = -1
  /\ textIn # <<>>
  /\ LET result == testDetection(textIn, customPatterns)
     IN /\ scoreIn' = result
        /\ testScore' = testDetectionScore(result.hasPersonalData, result.hasSecrets,
                                           result.hasCode, result.totalMatches)
  /\ UNCHANGED <<bgScore, textIn, analysed, customPatterns, elements>>
  /\ UNCHANGED storeVars

TestInit ==
  /\ now = 2
  /\ bodies = <<>>
  /\ logIndex = <<>>
  /\ indexVersion = 0
  /\ corporateEndpoint = ""
  /\ nCalls = 0
  /\ calls = {}
  /\ last = NoCall
  /\ alerts = {}
  /\ sent = NoneSent
  /\ scoreIn = EmptyAnalysis
  /\ bgScore = -1
  /\ testScore = -1
  /\ textIn \in AnalyzeTexts
  /\ analysed = FALSE
  /\ customPatterns \in CustomPatternSets
  /\ elements = NoElements

TestNext == RunTestDetection

TestSpec == TestInit /\ [][TestNext]_vars

\* ------------------------------------------------ the content script's page
\* The page of claude.ai renders response elements; an element carries
\* data-is-streaming="true" while its text arrives and "false" afterwards.
\* The content script sees an element on two paths: the MutationObserver of
\* observeDOM, when a subtree holding the element is added to the document,
\* and the timer of monitorClaude.  elements[e].sent counts the LOG_RESPONSE
\* messages sent with the DOM text of element e.

\* the texts extractText reads from an element: a short one and a long one
DomTexts == { <<"hello">>, <<"ssn">> }

\* the number of messages extractAndLogResponse sends for a text: 0 or 1
Sends(textContent) ==
  IF extractAndLogResponse(now, "claude.ai", textContent) # NoMessage THEN 1 ELSE 0

\* the page adds a subtree that holds element e; the observer's callback runs
\* checkForLLMResponse on the added node, which hands the first descendant
\* that matches the first selector with a match to extractAndLogResponse:
\* element e, or another element of the subtree
observeDOM(e) ==
  /\ elements[e].state = "absent"
  /\ \E state \in {"streaming", "complete"}, textContent \in DomTexts,
        matched \in BOOLEAN :
       elements' = [elements EXCEPT ![e] =
         [state |-> state, text |-> textContent, logged |-> FALSE,
          sent |-> IF matched THEN Sends(textContent) ELSE 0]]
  /\ UNCHANGED <<scoreIn, bgScore, testScore, textIn, analysed, customPatterns>>
  /\ UNCHANGED storeVars

\* the page ends the streaming of element e: the rest of the text is in and
\* data-is-streaming becomes "false"; an attribute change and nodes added
\* below the element do not make the observer look at the element again
StreamingEnds(e) ==
  /\ elements[e].state = "streaming"
  /\ \E rest \in { <<>>, <<"apikey">> } :
       elements' = [elements EXCEPT ![e].state = "complete",
                                    ![e].text = @ \o rest]
  /\ UNCHANGED <<scoreIn, bgScore, testScore, textIn, analysed, customPatterns>>
  /\ UNCHANGED storeVars

\* the elements '[data-is-streaming="false"]:not([data-logged])' selects
Unlogged == { e \in 1..MaxElements :
                elements[e].state = "complete" /\ ~elements[e].logged }

\* monitorClaude: the timer fires; every element selected is stamped
\* data-logged and handed to extractAndLogResponse
checkForClaude ==
  /\ Unlogged # {}
  /\ elements' = [e \in 1..MaxElements |->
       IF e \in Unlogged
       THEN [elements[e] EXCEPT !.logged = TRUE,
                                !.sent = @ + Sends(elements[e].text)]
       ELSE elements[e]]
  /\ UNCHANGED <<scoreIn, bgScore, testScore, textIn, analysed, customPatterns>>
  /\ UNCHANGED storeVars

PageInit ==
  /\ now = 2
  /\ bodies = <<>>
  /\ logIndex = <<>>
  /\ indexVersion = 0
  /\ corporateEndpoint = ""
  /\ nCalls = 0
  /\ calls = {}
  /\ last = NoCall
  /\ alerts = {}
  /\ sent = NoneSent
  /\ scoreIn = EmptyAnalysis
  /\ bgScore = -1
  /\ testScore = -1
  /\ textIn = <<>>
  /\ analysed = FALSE
  /\ customPatterns = <<>>
  /\ elements = NoElements

PageNext ==
  \/ \E e \in 1..MaxElements : observeDOM(e)
  \/ \E e \in 1..MaxElements : StreamingEnds(e)
  \/ checkForClaude

PageSpec == PageInit /\ [][PageNext]_vars

\* ================================================================ claims

\* ---- C1 ---------------------------------------------------------------
\* C1: after every append, and in every state in between, the persisted
\* index holds at most maxEntries entries.
C1_IndexBounded == Len(logIndex) <= maxEntries

\* an append has just written a full index after splicing an entry off
C1_Witness ==
  /\ last.appended /\ Len(last.toRemove) > 0
  /\ logIndex = last.idx /\ Len(logIndex) = maxEntries

\* ---- C2 ---------------------------------------------------------------
\* C2 as stated: once an append has written the index, every entry it
\* evicted has a timestamp no higher than any entry it retained (eviction
\* takes the lowest timestamps first).
C2_EvictsLowestTimestamp ==
  last.appended =>
    \A i \in 1..Len(last.toRemove), j \in 1..Len(last.idx) :
      last.toRemove[i].timestamp <= last.idx[j].timestamp

\* C2 amended: the index an append writes is the last maxEntries items, in
\* insertion order, of the index it read followed by its own item, and the
\* bodies removed are those of the items in front of them: eviction goes by
\* position in the index, never by timestamp.
C2_EvictsFrontOfIndex ==
  [][\A c \in calls :
       (c.pc = "setIndex" /\ \A d \in calls' : d.id # c.id)
       => LET all  == Append(c.read, indexItem(c.entry))
              drop == Len(all) - Min(Len(all), maxEntries)
          IN /\ logIndex' = SubSeq(all, drop + 1, Len(all))
             /\ DOMAIN bodies' =
                  DOMAIN bodies \ { all[i].key : i \in 1..drop }]_vars

\* an append has evicted an entry stamped later than one it retained
C2_Witness ==
  /\ last.appended
  /\ logIndex = last.idx
  /\ \E i \in 1..Len(last.toRemove), j \in 1..Len(last.idx) :
       last.toRemove[i].timestamp > last.idx[j].timestamp

\* ---- C3 ---------------------------------------------------------------
\* C3: no two appends in flight hold the same version of the index to push
\* onto, and the index never exceeds maxEntries.
C3_AppendsAtomic ==
  /\ \A c1, c2 \in calls :
       (c1 # c2 /\ c1.pc = "setIndex" /\ c2.pc = "setIndex") => c1.ver # c2.ver
  /\ Len(logIndex) <= maxEntries

\* ---- C4 ---------------------------------------------------------------
\* C4 as stated: the observations of the exchange that report its response
\* (page script and DOM) leave exactly one response record in the store.
C4_OneRecordPerKey ==
  Cardinality({ k \in DOMAIN bodies : bodies[k].type = "response" }) <= 1

\* C4 amended: every observation is appended on its own: the index written
\* by its append ends with its own item, and every delivered observation
\* whose append is no longer pending has written the index once, however
\* many observations of the same exchange and direction came before it.
C4_OneAppendPerObservation ==
  /\ last.appended =>
       /\ last.idx # <<>>
       /\ last.idx[Len(last.idx)] = indexItem(last.entry)
  /\ indexVersion =
       Delivered - Cardinality({ c \in calls : c.pc \in {"getIndex", "setIndex"} })

\* the store holds two response records of the one exchange, one from the
\* page script and one from the DOM
C4_Witness ==
  \E k1, k2 \in DOMAIN bodies :
    /\ k1 # k2
    /\ bodies[k1].method = "network_intercept"
    /\ bodies[k2].method = "dom_extraction"
    /\ bodies[k1].text = bodies[k2].text
    /\ calls = {}

\* ---- C5 ---------------------------------------------------------------
\* the source kinds a stored record carries: the one of the observation it
\* was built from
SourceKinds(entry) ==
  CASE entry.method = "POST"              -> {"network-request"}
    [] entry.method = "network_intercept" -> {"network-response"}
    [] entry.method = "dom_extraction"    -> {"dom-extract"}
    [] OTHER                              -> {}

AllSourcesReported ==
  sent.request >= 1 /\ sent.page >= 1 /\ sent.dom >= 1 /\ calls = {}

\* C5 as stated: once the three sources have reported the exchange, the
\* store holds exactly one record, and it carries all three source kinds.
C5_OneMergedRecord ==
  AllSourcesReported =>
    /\ Cardinality(DOMAIN bodies) = 1
    /\ \A k \in DOMAIN bodies :
         SourceKinds(bodies[k]) =
           {"network-request", "network-response", "dom-extract"}

\* C5 amended: once the three sources have reported the exchange, as many
\* appends have been made as observations were delivered, and every stored
\* record carries exactly one source kind.
C5_OneRecordPerSource ==
  /\ AllSourcesReported => indexVersion = Delivered
  /\ \A k \in DOMAIN bodies : Cardinality(SourceKinds(bodies[k])) = 1

\* request, page response and DOM extract have each been appended once, and
\* the records left in the store come from different sources
C5_Witness ==
  /\ sent = [request |-> 1, page |-> 1, dom |-> 1]
  /\ calls = {}
  /\ indexVersion = 3
  /\ Len(logIndex) = maxEntries
  /\ \E k1, k2 \in DOMAIN bodies : SourceKinds(bodies[k1]) # SourceKinds(bodies[k2])

\* ---- C6 ---------------------------------------------------------------
\* C6: a handler that has returned after taking in an observation (a
\* recorded request, a LOG_RESPONSE or a LOG_REQUEST message) has appended a
\* record for it.
C6_EveryObservationStored ==
  (last.pc = "done" /\ last.op \in {"interceptRequest", "LOG_RESPONSE", "LOG_REQUEST"})
    => last.appended

\* ---- C7 ---------------------------------------------------------------
\* C7: calculateRiskScore returns an integer in 0..10 for every Analysis,
\* and 0 for the Analysis of an empty text.
C7_ScoreInRange ==
  bgScore # -1 =>
    /\ bgScore \in 0..10
    /\ (scoreIn = EmptyAnalysis => bgScore = 0)

\* every flag set and more than 10 matches: the sum is 21, the score 10
C7_Witness ==
  /\ bgScore = 10
  /\ scoreIn.full /\ scoreIn.hasPersonalData /\ scoreIn.hasSecrets /\ scoreIn.hasCode
  /\ scoreIn.totalMatches > 10

\* ---- C8 ---------------------------------------------------------------
Bit(b) == IF b THEN 1 ELSE 0

\* the weighted sum of the specification, clamped to 10
WeightedSum(a) ==
  Min(10, 5 * Bit(a.full /\ a.hasPersonalData) + 8 * Bit(a.full /\ a.hasSecrets)
          + 3 * Bit(a.full /\ a.hasCode) + 2 * Bit(a.full /\ a.totalMatches > 5)
          + 3 * Bit(a.full /\ a.totalMatches > 10))

\* C8: both scorers return the clamped weighted sum, the two volume bonuses
\* adding up, hence the same value for the same flags and match count.
C8_ScoreFormula ==
  /\ bgScore # -1 => bgScore = WeightedSum(scoreIn)
  /\ testScore # -1 => testScore = WeightedSum(scoreIn)

\* no flag and more than 10 matches: both bonuses apply, 2 + 3 = 5
C8_Witness ==
  /\ bgScore = 5 /\ testScore = 5
  /\ ~scoreIn.hasPersonalData /\ ~scoreIn.hasSecrets /\ ~scoreIn.hasCode
  /\ scoreIn.totalMatches > 10

\* ---- C9 ---------------------------------------------------------------
\* C9: a handler that has returned after appending a record whose score is
\* at or above the threshold has raised a notification for it.
C9_HighRiskNotified ==
  (last.pc = "done" /\ last.appended /\ last.entry.riskScore >= alertThreshold)
    => last.notified

C11_AppendNotifyEscalate ==
  [][/\ \A b \in alerts' :
          (\A a \in alerts : a.key # b.key) =>
            /\ b.esc = "lookup"
            /\ b.key \in DOMAIN bodies'
            /\ \E c \in calls :
                 /\ c.pc = "setIndex" /\ storageKey(c.entry) = b.key
                 /\ \A d \in calls' : d.id # c.id
                 /\ logIndex' = c.idx
                 /\ c.idx[Len(c.idx)] = indexItem(c.entry)
     /\ \A b \in alerts' :
          (b \notin alerts /\ b.esc \in {"identity", "attempted"}) =>
            /\ corporateEndpoint # ""
            /\ \E a \in alerts : a.key = b.key]_vars

\* an alerted record is stored, notified, and its escalation has been attempted
\* at the configured endpoint
C11_Witness ==
  \E a \in alerts :
    /\ a.esc = "attempted" /\ corporateEndpoint # ""
    /\ a.key \in DOMAIN bodies
    /\ \E i \in 1..Len(logIndex) : logIndex[i].key = a.key

\* ---- C12 --------------------------------------------------------------
\* how far an escalation has got
EscalationRank(esc) ==
  CASE esc = "lookup"    -> 0
    [] esc = "identity"  -> 1
    [] esc = "attempted" -> 2
    [] OTHER             -> 3

\* C12: an escalation only moves forward and stops for good once it has
\* failed, been rejected, been skipped or been delivered, so it is attempted
\* at most once and never retried; the notification stays; and the step in
\* which it fails or is rejected leaves the stored bodies and the index as
\* they were.
C12_FailureTerminal ==
  [][\A a \in alerts :
       /\ \E b \in alerts' :
            /\ b.key = a.key /\ b.riskScore = a.riskScore
            /\ EscalationRank(b.esc) >= EscalationRank(a.esc)
            /\ (EscalationRank(a.esc) = 3 => b = a)
            /\ (b # a /\ b.esc \in {"failed", "rejected"}) =>
                 /\ bodies' = bodies
                 /\ logIndex' = logIndex
                 /\ indexVersion' = indexVersion
       /\ Cardinality({ b \in alerts' : b.key = a.key }) = 1]_vars

\* one escalation failed at a lookup and another was rejected by the sink,
\* and both records are still stored
C12_Witness ==
  \E a1, a2 \in alerts :
    /\ a1.esc = "failed" /\ a2.esc = "rejected"
    /\ a1.key \in DOMAIN bodies /\ a2.key \in DOMAIN bodies

\* ---- C13 --------------------------------------------------------------
\* a suspended getLogs takes its last step and handleMessage answers
QueryReturns(c) == c.pc = "getBodies" /\ \A d \in calls' : d.id # c.id

\* C13: the logs a GET_LOGS answer carries are in descending order of
\* timestamp, and no index item that matched the filters and was left out is
\* more recent than a record that was returned.
C13_MostRecentFirst ==
  [][\A c \in calls :
       (QueryReturns(c) /\ c.op = "GET_LOGS") =>
         LET logs == last'.resp.logs
             matching == filterIndex(c.read, c.filters, now)
         IN /\ \A i, j \in 1..Len(logs) :
                 i < j => logs[i].timestamp >= logs[j].timestamp
            /\ \A m \in 1..Len(matching) :
                 (\A i \in 1..Len(logs) : storageKey(logs[i]) # matching[m].key) =>
                   \A i \in 1..Len(logs) :
                     logs[i].timestamp >= matching[m].timestamp]_vars

\* ---- C14 --------------------------------------------------------------
\* C14: every record a GET_LOGS answer carries satisfies each filter that
\* was supplied (provider equal, riskScore at least minRiskScore, timestamp
\* within timeRange of the time of the query), and with no filter supplied
\* the keys selected are those of the first queryLimit index items.
C14_FiltersConjunctive ==
  [][\A c \in calls :
       (QueryReturns(c) /\ c.op = "GET_LOGS") =>
         /\ \A i \in 1..Len(last'.resp.logs) :
              LET log == last'.resp.logs[i]
              IN /\ c.filters.provider # "" => log.provider = c.filters.provider
                 /\ c.filters.minRiskScore # 0 =>
                      log.riskScore >= c.filters.minRiskScore
                 /\ c.filters.timeRange # 0 =>
                      log.timestamp >= now - c.filters.timeRange
         /\ (c.filters.provider = "" /\ c.filters.minRiskScore = 0
               /\ c.filters.timeRange = 0) => last'.idx = sliceKeys(c.read)]_vars

\* ---- C15 --------------------------------------------------------------
\* C15: a GET_LOGS answer carries no more records than the limit sent with
\* the filters, and never more than queryLimit.
C15_LimitRespected ==
  [][\A c \in calls :
       (QueryReturns(c) /\ c.op = "GET_LOGS") =>
         /\ c.filters.limit # 0 => Len(last'.resp.logs) <= c.filters.limit
         /\ Len(last'.resp.logs) <= queryLimit]_vars

\* ---- C16 --------------------------------------------------------------
\* C16: an EXPORT_LOGS answer carries a record for every item of the index
\* the export read, and its totalEntries is the length of that index.
C16_ExportComplete ==
  [][\A c \in calls :
       (QueryReturns(c) /\ c.op = "EXPORT_LOGS") =>
         /\ last'.resp.totalEntries = Len(c.read)
         /\ \A m \in 1..Len(c.read) :
              \E i \in 1..Len(last'.resp.logs) :
                storageKey(last'.resp.logs[i]) = c.read[m].key]_vars

\* ---- C17 --------------------------------------------------------------
\* C17: when a query or an export reads the bodies, every key it selected
\* from the index it read has a body, and it returns as many records as it
\* selected keys.
C17_NoMidEviction ==
  [][\A c \in calls :
       QueryReturns(c) =>
         /\ \A i \in 1..Len(last'.idx) : last'.idx[i] \in DOMAIN bodies
         /\ Len(last'.resp.logs) = Len(last'.idx)]_vars

\* ---- C18 --------------------------------------------------------------
\* C18: a body stored under a key stays as it was written for as long as the
\* key is in the store: no step replaces it by another record.
C18_BodyImmutable ==
  [][\A k \in DOMAIN bodies :
       k \in DOMAIN bodies' => bodies'[k] = bodies[k]]_vars

\* ---- C19 --------------------------------------------------------------
\* C19: in every Analysis the classifier returns, hasSecrets is true exactly
\* when apiKeys or confidential is among its types, and these are among its
\* types exactly when the text holds a match of their patterns.
C19_HasSecretsIff ==
  analysed =>
    LET present == { scoreIn.types[i] : i \in 1..Len(scoreIn.types) }
    IN /\ (scoreIn.full /\ scoreIn.hasSecrets) <=>
            (present \cap {"apiKeys", "confidential"} # {})
       /\ ("apiKeys" \in present) <=>
            (\E i \in 1..Len(textIn) : textIn[i] = "apikey")
       /\ ("confidential" \in present) <=>
            (\E i \in 1..Len(textIn) : textIn[i] = "conf")

\* a text with a confidential marker and no credential is classified as
\* holding secrets
C19_Witness ==
  /\ analysed /\ scoreIn.hasSecrets
  /\ \E i \in 1..Len(scoreIn.types) : scoreIn.types[i] = "confidential"
  /\ \A i \in 1..Len(scoreIn.types) : scoreIn.types[i] # "apiKeys"

\* ---- C20 --------------------------------------------------------------
\* C20: a handler that took in a request or a LOG_RESPONSE with an empty
\* text and has returned has appended a record for it, whose Analysis has no
\* types and no matches and whose score is 0, and has raised no alert.
C20_EmptyTextStored ==
  (last.op \in {"interceptRequest", "LOG_RESPONSE"} /\ last.pc = "done"
     /\ last.entry.text = <<>>) =>
    /\ last.appended
    /\ last.entry.analysis.types = <<>>
    /\ last.entry.analysis.totalMatches = 0
    /\ last.entry.riskScore = 0
    /\ ~last.notified
    /\ \A a \in alerts : a.key # storageKey(last.entry)

\* a POST request with an empty body has been appended and is in the store
C20_Witness ==
  /\ last.op = "interceptRequest" /\ last.pc = "done" /\ last.appended
  /\ last.entry.text = <<>>
  /\ storageKey(last.entry) \in DOMAIN bodies
  /\ bodies[storageKey(last.entry)] = last.entry
  /\ \E i \in 1..Len(logIndex) : logIndex[i] = indexItem(last.entry)

\* ---- C21 --------------------------------------------------------------
\* C21: a handler whose append met a storage failure has reported an error
\* outcome: neither a success answer nor no answer at all.
C21_FailureSurfaced ==
  last.pc = "rejected" => last.resp.kind = "error"

\* ---- C22 --------------------------------------------------------------
\* C22: the step in which CLEAR_OLD_LOGS is handled removes from the index
\* and from the stored bodies exactly the entries stamped before the
\* retention threshold, keeps the others, and answers with a success that
\* carries the removals rather than with an error.
C22_SweepRemovesExpired ==
  [][(nCalls' = nCalls + 1 /\ last'.op = "CLEAR_OLD_LOGS") =>
       LET expired(log) == log.timestamp < now - retentionDays
           kept == SelectSeq(logIndex, LAMBDA log : ~expired(log))
           gone == { logIndex[i].key : i \in { j \in 1..Len(logIndex) :
                                                  expired(logIndex[j]) } }
       IN /\ logIndex' = kept
          /\ DOMAIN bodies' = DOMAIN bodies \ gone
          /\ last'.resp.kind = "success"]_vars

C25_NoAppendLost ==
  (calls = {} /\ Delivered < maxEntries) =>
    /\ Len(logIndex) = Delivered
    /\ \A k \in DOMAIN bodies : \E i \in 1..Len(logIndex) : logIndex[i].key = k

\* ---- C26 --------------------------------------------------------------
\* C26: whenever no append is in progress, every key in the index has a
\* stored body, every stored body has its key in the index, and no key is in
\* the index twice.
C26_IndexMatchesBodies ==
  calls = {} =>
    /\ \A i \in 1..Len(logIndex) : logIndex[i].key \in DOMAIN bodies
    /\ \A k \in DOMAIN bodies : \E i \in 1..Len(logIndex) : logIndex[i].key = k
    /\ \A i, j \in 1..Len(logIndex) : logIndex[i].key = logIndex[j].key => i = j

C28_OnlyKnownPostsRecorded ==
  [][/\ (last' # last /\ last'.pc = "ignored") =>
          UNCHANGED <<bodies, logIndex, indexVersion, alerts, calls>>
     /\ \A c \in calls' :
          (c.op = "interceptRequest" /\ \A d \in calls : d.id # c.id) =>
            /\ c.entry.method = "POST"
            /\ c.entry.url \in KnownHosts
            /\ c.entry.provider = llmEndpoints(c.entry.url)
            /\ calls' = calls \cup {c}
            /\ storageKey(c.entry) \notin DOMAIN bodies
            /\ bodies' = (storageKey(c.entry) :> c.entry) @@ bodies
            /\ UNCHANGED <<logIndex, indexVersion, alerts>>
     /\ \A c \in calls :
          (c.op = "interceptRequest" /\ c.pc = "setIndex"
             /\ \A d \in calls' : d.id # c.id) =>
            LET all == Append(c.read, indexItem(c.entry))
            IN /\ logIndex' = SubSeq(all, Len(all) - Len(logIndex') + 1, Len(all))
               /\ Cardinality({ i \in 1..Len(logIndex') :
                                  logIndex'[i].key = storageKey(c.entry) }) = 1]_vars

\* a request has been turned away after a POST was recorded: the store
\* holds the record of the POST and the index was written once
C28_Witness ==
  /\ last.op = "interceptRequest" /\ last.pc = "ignored" /\ last.id = 2
  /\ calls = {}
  /\ indexVersion = 1
  /\ \E k \in DOMAIN bodies : k[2] = 1 /\ bodies[k].method = "POST"

\* ---- C29 --------------------------------------------------------------
\* C29: at most one LOG_RESPONSE message is sent with the DOM text of any
\* one response element, the observer and the timer taken together.
C29_AtMostOneDomMessage ==
  \A e \in 1..MaxElements : elements[e].sent <= 1

\* ---- C30 --------------------------------------------------------------
\* C30: neither the step in which a GET_LOGS or an EXPORT_LOGS is taken in
\* and reads the index, nor the step in which it reads the bodies and
\* answers, changes the index, a stored body, the set of stored keys, or the
\* notifications and escalations, whatever the filters and whatever else is
\* in flight.
C30_QueryReadOnly ==
  [][(\/ \E c \in calls' :
            /\ c.op \in {"GET_LOGS", "EXPORT_LOGS"}
            /\ \A d \in calls : d.id # c.id
      \/ \E c \in calls : QueryReturns(c))
       => UNCHANGED <<bodies, logIndex, indexVersion, alerts>>]_vars

\* an export has returned records while an append was in flight, and the
\* store holds the records it returned
C30_Witness ==
  /\ last.op = "EXPORT_LOGS" /\ last.resp.kind = "data"
  /\ Len(last.resp.logs) > 0
  /\ \A i \in 1..Len(last.resp.logs) :
       storageKey(last.resp.logs[i]) \in DOMAIN bodies
  /\ \E c \in calls : c.pc \in {"getIndex", "setIndex"}

====
